---------------------------- MODULE Spec2Model ----------------------------
(***************************************************************************)
(* A state-machine model of the NIORA storefront (src/src/App.tsx): the    *)
(* express/better-sqlite3 server (auth middleware, catalog, order ledger,  *)
(* gallery and settings routes, and the startup script that seeds the     *)
(* database) and, of the React client, the session handlers, the cart and  *)
(* the checkout, and the admin dashboard (the fetch of the orders, the     *)
(* month filter and the dashboardStats calculations).                      *)
(*                                                                         *)
(* Dynamically typed request fields are tagged values [t, v]: Num, Str,    *)
(* Arr and Undef (a field the JSON body does not carry).  Product rows     *)
(* keep id, name and price; description, benefits and image are opaque     *)
(* strings that no operation of the server inspects.                       *)
(***************************************************************************)
EXTENDS Integers, Sequences, FiniteSets, TLC

(***************************************************************************)
(* Bounds of the model.                                                    *)
(***************************************************************************)
MaxOrders == 2        \* rows the order ledger may grow to
MaxNewProducts == 1   \* products an admin may create beyond the seeds
MaxNewGallery == 1    \* gallery images an admin may add beyond the seeds
MaxReviews == 1       \* reviews that may be posted
MaxRows == 3          \* orders in a list given to the dashboard's calculations
MaxUsers == 2         \* rows of the users table (the seeded admin included)
MaxStarts == 3        \* starts of the server over one database file
MaxQuantity == 2      \* quantity of a cart entry

(***************************************************************************)
(* Program constants.                                                      *)
(***************************************************************************)
TokenLifetime == 86400   \* expiresIn: "1d", in seconds (jwt's exp unit)

JWT_SECRET == "niora-secret-key"

(***************************************************************************)
(* Tagged JavaScript values.                                               *)
(***************************************************************************)
Num(n) == [t |-> "num", v |-> n]
Str(s) == [t |-> "str", v |-> s]
Arr(a) == [t |-> "arr", v |-> a]
Undef == [t |-> "undef", v |-> 0]
Null == [t |-> "null", v |-> 0]

\* JavaScript truthiness: undefined, null, 0 and "" are falsy.
Truthy(x) ==
  CASE x.t = "undef" -> FALSE
    [] x.t = "null" -> FALSE
    [] x.t = "num" -> x.v # 0
    [] x.t = "str" -> x.v # ""
    [] OTHER -> TRUE


(***************************************************************************)
(* JSON text.  A text is the sequence of its lexical tokens: punctuation,  *)
(* number literals and string literals.  JsonStringify writes a value as   *)
(* JSON.stringify does and JsonParse reads a text back as JSON.parse does, *)
(* by recursive descent; a text that is not JSON makes it throw.           *)
(***************************************************************************)
P(c) == [k |-> "punct", n |-> 0, s |-> c]
N(n) == [k |-> "number", n |-> n, s |-> ""]
S(s) == [k |-> "string", n |-> 0, s |-> s]

\* A cart line as the request body carries it: an object with these keys,
\* in the order the client's spread {...product, quantity: 1} writes them.
ItemKeys == <<"id", "name", "price", "quantity">>

Item(id, name, price, quantity) ==
  [id |-> id, name |-> name, price |-> price, quantity |-> quantity]

\* The literal of one member value: strings in quotes, numbers bare.
ValueToken(key, x) == IF key = "name" THEN S(x) ELSE N(x)

RECURSIVE StringifyMembers(_, _)
StringifyMembers(obj, i) ==
  IF i > Len(ItemKeys) THEN <<>>
  ELSE (IF i > 1 THEN <<P(",")>> ELSE <<>>)
       \o <<S(ItemKeys[i]), P(":"), ValueToken(ItemKeys[i], obj[ItemKeys[i]])>>
       \o StringifyMembers(obj, i + 1)

StringifyObject(obj) == <<P("{")>> \o StringifyMembers(obj, 1) \o <<P("}")>>

\* One element of a list: a cart line, or null.
StringifyElement(x) ==
  IF "t" \in DOMAIN x THEN <<P("null")>> ELSE StringifyObject(x)

\* Mutant of StringifyElements: only the first element is written.
StringifyElementsFirst(a, i) ==
  IF i > Len(a) \/ i > 1 THEN <<>> ELSE StringifyElement(a[i])

RECURSIVE StringifyElements(_, _)
StringifyElements(a, i) ==
  IF i > Len(a) THEN <<>>
  ELSE (IF i > 1 THEN <<P(",")>> ELSE <<>>)
       \o StringifyElement(a[i]) \o StringifyElements(a, i + 1)

\* JSON.stringify(x): undefined for undefined, else the text of x.
JsonStringify(x) ==
  CASE x.t = "undef" -> Undef
    [] x.t = "null" -> [t |-> "text", v |-> <<P("null")>>]
    [] x.t = "num" -> [t |-> "text", v |-> <<N(x.v)>>]
    [] x.t = "str" -> [t |-> "text", v |-> <<S(x.v)>>]
    [] x.t = "arr" ->
         [t |-> "text", v |-> <<P("[")>> \o StringifyElements(x.v, 1) \o <<P("]")>>]

ParseFail == [ok |-> FALSE, val |-> <<>>, rest |-> <<>>]

\* Members of an object, after "{" or ","; acc holds the members read so far.
RECURSIVE ParseMembers(_, _)
ParseMembers(toks, acc) ==
  IF Len(toks) < 4 \/ toks[1].k # "string" \/ toks[2] # P(":")
     \/ toks[3].k = "punct"
  THEN ParseFail
  ELSE LET val == IF toks[3].k = "string" THEN toks[3].s ELSE toks[3].n
           obj == (toks[1].s :> val) @@ acc
           rest == SubSeq(toks, 5, Len(toks))
       IN IF toks[4] = P("}") THEN [ok |-> TRUE, val |-> obj, rest |-> rest]
          ELSE IF toks[4] = P(",") THEN ParseMembers(rest, obj)
          ELSE ParseFail

\* Elements of an array, after "[" or ","; acc holds the elements read so far.
RECURSIVE ParseElements(_, _)
ParseElements(toks, acc) ==
  IF Len(toks) < 2 THEN ParseFail
  ELSE LET m == IF toks[1] = P("null")
                THEN [ok |-> TRUE, val |-> Null, rest |-> Tail(toks)]
                ELSE IF toks[1] = P("{") /\ toks[2] = P("}")
                THEN [ok |-> TRUE, val |-> <<>>,
                      rest |-> SubSeq(toks, 3, Len(toks))]
                ELSE IF toks[1] = P("{") THEN ParseMembers(Tail(toks), <<>>)
                ELSE ParseFail
       IN IF ~m.ok \/ Len(m.rest) = 0 THEN ParseFail
          ELSE IF m.rest[1] = P("]")
          THEN [ok |-> TRUE, val |-> Append(acc, m.val), rest |-> Tail(m.rest)]
          ELSE IF m.rest[1] = P(",")
          THEN ParseElements(Tail(m.rest), Append(acc, m.val))
          ELSE ParseFail

\* JSON.parse(text): [ok |-> TRUE, val |-> the value], or ok = FALSE when it
\* throws a SyntaxError.
JsonParse(toks) ==
  IF Len(toks) = 0 THEN [ok |-> FALSE, val |-> Undef]
  ELSE IF toks[1].k = "number" /\ Len(toks) = 1
  THEN [ok |-> TRUE, val |-> Num(toks[1].n)]
  ELSE IF toks[1].k = "string" /\ Len(toks) = 1
  THEN [ok |-> TRUE, val |-> Str(toks[1].s)]
  ELSE IF toks = <<P("null")>> THEN [ok |-> TRUE, val |-> Null]
  ELSE IF toks = <<P("["), P("]")>> THEN [ok |-> TRUE, val |-> Arr(<<>>)]
  ELSE IF toks[1] = P("[")
  THEN LET e == ParseElements(Tail(toks), <<>>)
       IN IF e.ok /\ Len(e.rest) = 0 THEN [ok |-> TRUE, val |-> Arr(e.val)]
          ELSE [ok |-> FALSE, val |-> Undef]
  ELSE [ok |-> FALSE, val |-> Undef]


(***************************************************************************)
(* The database (niora.db) and the startup script.                         *)
(***************************************************************************)
VARIABLES
  users,        \* users table, in rowid order
  products,     \* products table, in rowid order
  productSeq,   \* AUTOINCREMENT high-water mark of products
  orders,       \* orders table (the order ledger), in rowid order
  reviews,      \* reviews table, in rowid order
  gallery,      \* gallery table, in rowid order
  gallerySeq,   \* AUTOINCREMENT high-water mark of gallery
  settings,     \* settings table: key -> value
  starts,       \* how many times the server's startup script has run
  now,          \* the server clock, in seconds
  held,         \* a token someone keeps outside the browser's session
  res,          \* the response the server is sending (Idle between requests;
                \* after a start, the line the server logs)
  token,        \* client: the token state (null when logged out)
  user,         \* client: the user state (null when logged out)
  isAdmin,      \* client: the isAdmin flag
  localStorage, \* client: the niora_token and niora_user entries
  shopProducts, \* client: the products state (the catalog last fetched)
  cart,         \* client: the cart state
  adminOrders,  \* client: the adminOrders state (the orders last fetched)
  selectedMonth,  \* client: the dashboard's month filter
  dashboardStats, \* client: the memoized dashboardStats
  effectToken,  \* client: the token the effect on [token] last ran with
  fetching      \* client: the fetchAdminData calls under way

stores == <<users, products, productSeq, orders, reviews, gallery, gallerySeq,
            settings>>
panel == <<adminOrders, selectedMonth, dashboardStats, effectToken, fetching>>
shop == <<shopProducts, cart>>
client == <<token, user, isAdmin, localStorage, shop, panel>>
vars == <<stores, starts, now, held, res, client>>

\* bcrypt.hashSync(password, 10): a salted hash, opaque but for compareSync.
BcryptHash(password) == [alg |-> "bcrypt", of |-> password]

\* bcrypt.compareSync(s, hash): throws on a password that is not a string
\* ("Illegal arguments"), else tells whether hash was made from s.
BcryptCompare(s, hash) ==
  IF s.t # "str" THEN "throws"
  ELSE IF hash.of = s.v THEN "match" ELSE "mismatch"

HeroDefault == "https://images.unsplash.com/photo-1604908177522-4028c0f9b0db"

seedProducts ==
  << [name |-> "NIORA RED WINE SOAP", price |-> 79],
     [name |-> "NIORA SHUDDHA GLOW", price |-> 89],
     [name |-> "NIORA CHARCOAL SOAP", price |-> 89],
     [name |-> "NIORA SIGNATURE SOAP", price |-> 200] >>

seedGallery ==
  << "https://picsum.photos/seed/niora1/400/600",
     "https://picsum.photos/seed/niora2/400/600",
     "https://picsum.photos/seed/niora3/400/600",
     "https://picsum.photos/seed/niora4/400/600" >>

AdminEmail == "admin@niora.com"
AdminPassword == "BEANIORA"

\* INSERT INTO products: the new row takes the id after the high-water mark.
InsertProducts(rows, seq, new) ==
  rows \o [i \in 1..Len(new) |->
             [id |-> seq + i, name |-> new[i].name, price |-> new[i].price]]

InsertGallery(rows, seq, new) ==
  rows \o [i \in 1..Len(new) |-> [id |-> seq + i, image |-> new[i]]]

EmptyDb ==
  [users |-> <<>>, products |-> <<>>, productSeq |-> 0, orders |-> <<>>,
   reviews |-> <<>>, gallery |-> <<>>, gallerySeq |-> 0, settings |-> <<>>]

\* "Seed initial settings if empty".
SeedSettings(db) ==
  IF DOMAIN db.settings = {}
  THEN [db EXCEPT !.settings = ("hero_image" :> HeroDefault)]
  ELSE db

\* Mutant of SeedCatalog: the marker is written but not consulted, so an
\* empty table is seeded again at every start.
SeedCatalogEveryStart(db) ==
  LET seedP == Len(db.products) = 0
      seedG == Len(db.gallery) = 0
  IN [db EXCEPT
        !.products = IF seedP
                     THEN InsertProducts(<<>>, db.productSeq, seedProducts)
                     ELSE @,
        !.productSeq = IF seedP THEN @ + Len(seedProducts) ELSE @,
        !.gallery = IF seedG
                    THEN InsertGallery(<<>>, db.gallerySeq, seedGallery)
                    ELSE @,
        !.gallerySeq = IF seedG THEN @ + Len(seedGallery) ELSE @,
        !.settings = ("seeded" :> "true") @@ @]

\* The block guarded by the persisted 'seeded' marker.
SeedCatalog(db) ==
  IF "seeded" \in DOMAIN db.settings THEN db
  ELSE LET seedP == Len(db.products) = 0
           seedG == Len(db.gallery) = 0
       IN [db EXCEPT
             !.products = IF seedP
                          THEN InsertProducts(<<>>, db.productSeq, seedProducts)
                          ELSE @,
             !.productSeq = IF seedP THEN @ + Len(seedProducts) ELSE @,
             !.gallery = IF seedG
                         THEN InsertGallery(<<>>, db.gallerySeq, seedGallery)
                         ELSE @,
             !.gallerySeq = IF seedG THEN @ + Len(seedGallery) ELSE @,
             !.settings = ("seeded" :> "true") @@ @]

\* "Seed admin user if empty".
SeedAdmin(db) ==
  IF \E i \in 1..Len(db.users) : db.users[i].role = "admin" THEN db
  ELSE [db EXCEPT !.users =
          Append(@, [id |-> Len(@) + 1, name |-> "NIORA Admin",
                     email |-> AdminEmail,
                     password |-> BcryptHash(AdminPassword),
                     role |-> "admin"])]

\* The module-level script the server runs when it starts.
Startup(db) == SeedAdmin(SeedCatalog(SeedSettings(db)))


(***************************************************************************)
(* Tokens and the auth middleware.                                         *)
(***************************************************************************)
\* What may stand after "Bearer " in an Authorization header: a JWT (its
\* payload, and key, the secret it was signed with), text that is no JWT
\* (the client sends the word null when logged out), or nothing.
Jwt(id, role, name, iat, exp, key) ==
  [t |-> "jwt", id |-> id, role |-> role, name |-> name, iat |-> iat,
   exp |-> exp, key |-> key]
Garbage == [t |-> "garbage", id |-> 0, role |-> "", name |-> "", iat |-> 0,
            exp |-> 0, key |-> ""]
NoCred == [t |-> "none", id |-> 0, role |-> "", name |-> "", iat |-> 0,
           exp |-> 0, key |-> ""]

\* Authorization headers: none; "Bearer" with nothing after it; "Bearer x".
NoHeader == [set |-> FALSE, cred |-> NoCred]
BearerOnly == [set |-> TRUE, cred |-> NoCred]
Bearer(tok) == [set |-> TRUE, cred |-> tok]

\* jwt.sign(payload, secret, {expiresIn: "1d"}) at time clock.
JwtSign(payload, secret, clock) ==
  Jwt(payload.id, payload.role, payload.name, clock, clock + TokenLifetime,
      secret)

\* Mutant of JwtVerify: the server also checks the token against the session
\* the browser holds, so a logout or a later login revokes it.
JwtVerifySession(tok, secret, clock) ==
  IF tok.t # "jwt" \/ tok.key # secret \/ tok # localStorage.niora_token
  THEN [err |-> "JsonWebTokenError", user |-> NoCred]
  ELSE IF clock >= tok.exp THEN [err |-> "TokenExpiredError", user |-> NoCred]
  ELSE [err |-> "", user |-> tok]

\* jwt.verify(token, secret) at time clock: the error, or the payload.
JwtVerify(tok, secret, clock) ==
  IF tok.t # "jwt" THEN [err |-> "JsonWebTokenError", user |-> NoCred]
  ELSE IF tok.key # secret THEN [err |-> "JsonWebTokenError", user |-> NoCred]
  ELSE IF clock >= tok.exp THEN [err |-> "TokenExpiredError", user |-> NoCred]
  ELSE [err |-> "", user |-> tok]

\* Mutant of authenticateToken: a token that fails verification gets 401.
authenticateToken401(hdr, clock) ==
  LET tok == IF hdr.set THEN hdr.cred ELSE NoCred
  IN IF tok.t = "none" THEN [next |-> FALSE, status |-> 401, user |-> NoCred]
     ELSE LET r == JwtVerify(tok, JWT_SECRET, clock)
          IN IF r.err # "" THEN [next |-> FALSE, status |-> 401, user |-> NoCred]
             ELSE [next |-> TRUE, status |-> 200, user |-> r.user]

\* authenticateToken: 401 without a token, 403 when verify fails, else
\* next() with req.user set.
authenticateToken(hdr, clock) ==
  LET tok == IF hdr.set THEN hdr.cred ELSE NoCred
  IN IF tok.t = "none" THEN [next |-> FALSE, status |-> 401, user |-> NoCred]
     ELSE LET r == JwtVerify(tok, JWT_SECRET, clock)
          IN IF r.err # "" THEN [next |-> FALSE, status |-> 403, user |-> NoCred]
             ELSE [next |-> TRUE, status |-> 200, user |-> r.user]

\* Mutant of IsAdmin: any authenticated user passes.
IsAdminLax(reqUser) == [next |-> TRUE, status |-> 200]

\* The isAdmin middleware: 403 unless req.user.role is admin.
IsAdmin(reqUser) ==
  IF reqUser.role # "admin" THEN [next |-> FALSE, status |-> 403]
  ELSE [next |-> TRUE, status |-> 200]

\* The chain authenticateToken, isAdmin that every privileged route mounts.
AdminGate(hdr, clock) ==
  LET a == authenticateToken(hdr, clock)
  IN IF ~a.next THEN [next |-> FALSE, status |-> a.status]
     ELSE IsAdmin(a.user)

\* Node handles one request at a time, each handler running to its response:
\* a request is taken up when the server is idle, and res holds the request's
\* route and Authorization header with the response's status and body until
\* the response is out.
\* res.input is the JSON body of a POST /api/orders request.
NoInput ==
  [items |-> Undef, total |-> Undef, address |-> Undef, contact |-> Undef,
   user_id |-> Undef, status |-> Undef]

\* res.rows is the list a 200 response of GET /api/admin/orders carries.
Idle == [op |-> "none", hdr |-> NoHeader, input |-> NoInput, status |-> 0,
         body |-> "none", rows |-> <<>>]

RespondRows(op, hdr, input, status, body, rows) ==
  /\ res = Idle
  /\ res' = [op |-> op, hdr |-> hdr, input |-> input, status |-> status,
             body |-> body, rows |-> rows]

RespondTo(op, hdr, input, status, body) ==
  RespondRows(op, hdr, input, status, body, <<>>)

Respond(op, hdr, status, body) == RespondTo(op, hdr, NoInput, status, body)

Finish ==
  /\ res # Idle
  /\ res' = Idle
  /\ UNCHANGED <<stores, starts, now, held, client>>

(***************************************************************************)
(* POST /api/auth/signup and POST /api/auth/login.                         *)
(***************************************************************************)
UserByEmail(rows, email) ==
  {i \in 1..Len(rows) : rows[i].email = email}

\* The signup handler's try block: true when the insert goes through.
\* hashSync throws on a password that is not a string; the insert throws on
\* a name or an email it cannot bind and on an email already in the table.
SignupOk(rows, body) ==
  /\ body.password.t = "str"
  /\ body.name.t = "str"
  /\ body.email.t = "str"
  /\ UserByEmail(rows, body.email.v) = {}

\* Mutant of SignupRow: a role the body carries is inserted with the row.
SignupRowWithRole(rows, body) ==
  [id |-> Len(rows) + 1, name |-> body.name.v, email |-> body.email.v,
   password |-> BcryptHash(body.password.v),
   role |-> IF body.role.t = "str" THEN body.role.v ELSE "customer"]

\* The row the insert writes: the handler takes name, email and password
\* from the body, and role takes the column default.
SignupRow(rows, body) ==
  [id |-> Len(rows) + 1, name |-> body.name.v, email |-> body.email.v,
   password |-> BcryptHash(body.password.v), role |-> "customer"]

Signup(body) ==
  /\ IF SignupOk(users, body)
     THEN /\ Len(users) < MaxUsers
          /\ users' = Append(users, SignupRow(users, body))
          /\ RespondTo("signup", NoHeader, body, 200, "Signup successful")
     ELSE /\ users' = users
          /\ RespondTo("signup", NoHeader, body, 400, "User already exists")
  /\ UNCHANGED <<products, productSeq, orders, reviews, gallery, gallerySeq,
                 settings, starts, now, held, client>>

\* The client's user state: null, or the user object of a login response.
NullUser == [id |-> 0, name |-> "", role |-> ""]

\* The login route as a function of the users table, the body and the clock:
\* the status, the body's kind and the token signed (NoCred when none is).
LoginResponse(rows, body, clock) ==
  IF body.email.t # "str"
  THEN [status |-> 500, body |-> "Internal Server Error", token |-> NoCred,
        user |-> NullUser]
  ELSE LET found == UserByEmail(rows, body.email.v)
       IN IF found = {}
          THEN [status |-> 401, body |-> "Invalid credentials",
                token |-> NoCred, user |-> NullUser]
          ELSE LET u == rows[CHOOSE i \in found : TRUE]
                   c == BcryptCompare(body.password, u.password)
               IN CASE c = "throws" ->
                         [status |-> 500, body |-> "Internal Server Error",
                          token |-> NoCred, user |-> NullUser]
                    [] c = "mismatch" ->
                         [status |-> 401, body |-> "Invalid credentials",
                          token |-> NoCred, user |-> NullUser]
                    [] c = "match" ->
                         [status |-> 200, body |-> "token",
                          token |-> JwtSign(u, JWT_SECRET, clock),
                          user |-> [id |-> u.id, name |-> u.name,
                                    role |-> u.role]]

\* The route called from outside the browser: the caller keeps the token.
Login(body) ==
  LET r == LoginResponse(users, body, now)
  IN /\ Respond("login", NoHeader, r.status, r.body)
     /\ held' = IF r.status = 200 THEN r.token ELSE held
     /\ UNCHANGED <<stores, starts, now, client>>


(***************************************************************************)
(* Catalog routes: POST, DELETE and PUT /api/products.                     *)
(***************************************************************************)
\* A request the gate turns away: sendStatus, and nothing else happens.
Reject(op, hdr, status) ==
  /\ Respond(op, hdr, status, IF status = 401 THEN "Unauthorized" ELSE "Forbidden")
  /\ UNCHANGED <<stores, starts, now, held, client>>

DeleteRow(rows, id) == SelectSeq(rows, LAMBDA r : r.id # id)

CreateProduct(hdr, name, price) ==
  LET g == AdminGate(hdr, now)
  IN IF ~g.next THEN Reject("createProduct", hdr, g.status)
     ELSE /\ productSeq < Len(seedProducts) + MaxNewProducts
          /\ products' = InsertProducts(products, productSeq,
                                        <<[name |-> name, price |-> price]>>)
          /\ productSeq' = productSeq + 1
          /\ Respond("createProduct", hdr, 200, "id")
          /\ UNCHANGED <<users, orders, reviews, gallery, gallerySeq,
                         settings, starts, now, held, client>>

DeleteProduct(hdr, id) ==
  LET g == AdminGate(hdr, now)
  IN IF ~g.next THEN Reject("deleteProduct", hdr, g.status)
     ELSE /\ products' = DeleteRow(products, id)
          /\ Respond("deleteProduct", hdr, 200, "success")
          /\ UNCHANGED <<users, productSeq, orders, reviews, gallery,
                         gallerySeq, settings, starts, now, held, client>>

\* Mutant of UpdateProduct: the new price is carried into the ledger, as if
\* order totals were derived from the live product row.
UpdateProductCascade(hdr, id, name, price) ==
  LET g == AdminGate(hdr, now)
  IN IF ~g.next THEN Reject("updateProduct", hdr, g.status)
     ELSE /\ products' = [i \in 1..Len(products) |->
                            IF products[i].id = id
                            THEN [products[i] EXCEPT !.name = name,
                                                     !.price = price]
                            ELSE products[i]]
          /\ orders' = [i \in 1..Len(orders) |->
                          [orders[i] EXCEPT !.total = price]]
          /\ Respond("updateProduct", hdr, 200, "success")
          /\ UNCHANGED <<users, productSeq, reviews, gallery, gallerySeq,
                         settings, starts, now, held, client>>

UpdateProduct(hdr, id, name, price) ==
  LET g == AdminGate(hdr, now)
  IN IF ~g.next THEN Reject("updateProduct", hdr, g.status)
     ELSE /\ products' = [i \in 1..Len(products) |->
                            IF products[i].id = id
                            THEN [products[i] EXCEPT !.name = name,
                                                     !.price = price]
                            ELSE products[i]]
          /\ Respond("updateProduct", hdr, 200, "success")
          /\ UNCHANGED <<users, productSeq, orders, reviews, gallery,
                         gallerySeq, settings, starts, now, held, client>>

(***************************************************************************)
(* Order routes: POST /api/orders, GET /api/admin/orders and               *)
(* GET /api/admin/stats.                                                   *)
(***************************************************************************)
\* What a better-sqlite3 statement binds: numbers, strings and null; any
\* other parameter (undefined, an array) makes run() throw a TypeError.
Bindable(x) == x.t \in {"num", "str", "null", "text"}

\* The five parameters of the insert, as the handler computes them.
OrderParams(body) ==
  [user_id |-> IF Truthy(body.user_id) THEN body.user_id ELSE Null,
   items |-> JsonStringify(body.items),
   total |-> body.total,
   address |-> body.address,
   contact |-> body.contact]

\* The row the insert writes: status and created_at take the column defaults.
OrderRow(rows, p, clock) ==
  [id |-> Len(rows) + 1, user_id |-> p.user_id, items |-> p.items.v,
   total |-> p.total.v, status |-> "pending", address |-> p.address.v,
   contact |-> p.contact.v, created_at |-> clock]

\* Mutant of PlaceOrder: INSERT OR REPLACE on a fixed id, so a second order
\* overwrites the first.
PlaceOrderReplace(body) ==
  LET p == OrderParams(body)
  IN /\ IF \A f \in DOMAIN p : Bindable(p[f])
        THEN /\ Len(orders) < MaxOrders
             /\ orders' = <<OrderRow(<<>>, p, now)>>
             /\ RespondTo("placeOrder", NoHeader, body, 200, "id")
        ELSE /\ orders' = orders
             /\ RespondTo("placeOrder", NoHeader, body, 500,
                          "Internal Server Error")
     /\ UNCHANGED <<users, products, productSeq, reviews, gallery, gallerySeq,
                    settings, starts, now, held, client>>

\* Mutant of PlaceOrder: a status the body carries is inserted with the row.
PlaceOrderWithStatus(body) ==
  LET p == OrderParams(body)
      row == OrderRow(orders, p, now)
  IN /\ IF \A f \in DOMAIN p : Bindable(p[f])
        THEN /\ Len(orders) < MaxOrders
             /\ orders' = Append(orders,
                                 IF body.status.t = "str"
                                 THEN [row EXCEPT !.status = body.status.v]
                                 ELSE row)
             /\ RespondTo("placeOrder", NoHeader, body, 200, "id")
        ELSE /\ orders' = orders
             /\ RespondTo("placeOrder", NoHeader, body, 500,
                          "Internal Server Error")
     /\ UNCHANGED <<users, products, productSeq, reviews, gallery, gallerySeq,
                    settings, starts, now, held, client>>

\* Mutant of PlaceOrder: a submission equal to one already in the ledger is
\* answered with success and not inserted again.
PlaceOrderDedup(body) ==
  LET p == OrderParams(body)
  IN /\ IF \A f \in DOMAIN p : Bindable(p[f])
        THEN /\ Len(orders) < MaxOrders
             /\ orders' = IF \E i \in 1..Len(orders) :
                                [orders[i] EXCEPT !.id = 0]
                                  = [OrderRow(orders, p, now) EXCEPT !.id = 0]
                           THEN orders
                           ELSE Append(orders, OrderRow(orders, p, now))
             /\ RespondTo("placeOrder", NoHeader, body, 200, "id")
        ELSE /\ orders' = orders
             /\ RespondTo("placeOrder", NoHeader, body, 500,
                          "Internal Server Error")
     /\ UNCHANGED <<users, products, productSeq, reviews, gallery, gallerySeq,
                    settings, starts, now, held, client>>

\* POST /api/orders as any caller may send it.  The handler is synchronous
\* (better-sqlite3 runs the insert before the handler returns), so requests
\* that overlap are handled one after the other, in any order.
PlaceOrder(body) ==
  LET p == OrderParams(body)
  IN /\ IF \A f \in DOMAIN p : Bindable(p[f])
        THEN /\ Len(orders) < MaxOrders
             /\ orders' = Append(orders, OrderRow(orders, p, now))
             /\ RespondTo("placeOrder", NoHeader, body, 200, "id")
        ELSE /\ orders' = orders
             /\ RespondTo("placeOrder", NoHeader, body, 500,
                          "Internal Server Error")
     /\ UNCHANGED <<users, products, productSeq, reviews, gallery, gallerySeq,
                    settings, starts, now, held, client>>

\* The same route under the request handleCheckout sends, which carries an
\* Authorization header; the route has no middleware and does not read it.
CheckoutRoute(hdr, body) ==
  LET p == OrderParams(body)
  IN /\ IF \A f \in DOMAIN p : Bindable(p[f])
        THEN /\ Len(orders) < MaxOrders
             /\ orders' = Append(orders, OrderRow(orders, p, now))
             /\ RespondTo("placeOrder", hdr, body, 200, "id")
        ELSE /\ orders' = orders
             /\ RespondTo("placeOrder", hdr, body, 500,
                          "Internal Server Error")
     /\ UNCHANGED <<users, products, productSeq, reviews, gallery, gallerySeq,
                    settings, starts, now, held>>

\* The lists SELECT * FROM orders ORDER BY created_at DESC may return: the
\* rows by falling created_at; SQL leaves open the order of rows whose
\* created_at is equal.
RECURSIVE Arrangements(_)
Arrangements(rows) ==
  IF Len(rows) = 0 THEN {<<>>}
  ELSE UNION {{<<rows[i]>> \o rest :
                 rest \in Arrangements(SelectSeq(rows,
                                                 LAMBDA r : r.id # rows[i].id))} :
              i \in 1..Len(rows)}

SelectOrders(rows) ==
  {list \in Arrangements(rows) :
     \A i, j \in 1..Len(list) :
       i < j => list[i].created_at >= list[j].created_at}

\* The route's response, sending the list chosen.
ListOrdersRoute(hdr, list) ==
  LET g == AdminGate(hdr, now)
  IN IF ~g.next
     THEN Respond("listOrders", hdr, g.status,
                  IF g.status = 401 THEN "Unauthorized" ELSE "Forbidden")
     ELSE RespondRows("listOrders", hdr, NoInput, 200, "orders", list)

ListOrders(hdr) ==
  \E list \in SelectOrders(orders) :
    /\ ListOrdersRoute(hdr, list)
    /\ UNCHANGED <<stores, starts, now, held, client>>

\* The stats route's loop: JSON.parse(o.items) then items.forEach, which
\* throws unless the snapshot is a list, and item.name, which throws on a
\* null entry.
StatsThrows(rows) ==
  \E i \in 1..Len(rows) :
    LET r == JsonParse(rows[i].items)
    IN \/ ~r.ok
       \/ r.val.t # "arr"
       \/ \E k \in 1..Len(r.val.v) : r.val.v[k] = Null

\* The route's response.
AdminStatsRoute(hdr) ==
  LET g == AdminGate(hdr, now)
  IN IF ~g.next
     THEN Respond("adminStats", hdr, g.status,
                  IF g.status = 401 THEN "Unauthorized" ELSE "Forbidden")
     ELSE IF StatsThrows(orders)
     THEN Respond("adminStats", hdr, 500, "Internal Server Error")
     ELSE Respond("adminStats", hdr, 200, "stats")

AdminStats(hdr) ==
  /\ AdminStatsRoute(hdr)
  /\ UNCHANGED <<stores, starts, now, held, client>>

\* Mutant of UpdateStatus: a route behind the admin gate that writes the
\* status.
UpdateStatusWrites(hdr, orderId, newStatus) ==
  LET g == AdminGate(hdr, now)
  IN /\ RespondTo("updateStatus", hdr, [id |-> orderId, status |-> newStatus],
                  IF g.next THEN 200 ELSE g.status,
                  IF g.next THEN "success" ELSE "Forbidden")
     /\ orders' = IF g.next
                  THEN [i \in 1..Len(orders) |->
                          IF orders[i].id = orderId
                          THEN [orders[i] EXCEPT !.status = newStatus]
                          ELSE orders[i]]
                  ELSE orders
     /\ UNCHANGED <<users, products, productSeq, reviews, gallery, gallerySeq,
                    settings, starts, now, held, client>>

\* A request to change an order's status.  No route matches it: the request
\* falls through the routes to the handler behind them, which answers 404.
UpdateStatus(hdr, orderId, newStatus) ==
  /\ RespondTo("updateStatus", hdr, [id |-> orderId, status |-> newStatus],
               404, "Not Found")
  /\ UNCHANGED <<stores, starts, now, held, client>>

(***************************************************************************)
(* Reviews, gallery and settings routes.                                   *)
(***************************************************************************)
PostReview(user_name, comment, rating) ==
  /\ Len(reviews) < MaxReviews
  /\ reviews' = Append(reviews,
                       [id |-> Len(reviews) + 1, user_name |-> user_name,
                        comment |-> comment,
                        rating |-> IF rating # 0 THEN rating ELSE 5,
                        created_at |-> now])
  /\ Respond("postReview", NoHeader, 200, "success")
  /\ UNCHANGED <<users, products, productSeq, orders, gallery, gallerySeq,
                 settings, starts, now, held, client>>

\* file: whether the multipart body carries the image file.
AddGallery(hdr, file) ==
  LET g == AdminGate(hdr, now)
  IN IF ~g.next THEN Reject("addGallery", hdr, g.status)
     ELSE IF ~file
     THEN /\ Respond("addGallery", hdr, 400, "No image uploaded")
          /\ UNCHANGED <<stores, starts, now, held, client>>
     ELSE /\ gallerySeq < Len(seedGallery) + MaxNewGallery
          /\ gallery' = InsertGallery(gallery, gallerySeq, <<"/uploads/file">>)
          /\ gallerySeq' = gallerySeq + 1
          /\ Respond("addGallery", hdr, 200, "id")
          /\ UNCHANGED <<users, products, productSeq, orders, reviews,
                         settings, starts, now, held, client>>

DeleteGallery(hdr, id) ==
  LET g == AdminGate(hdr, now)
  IN IF ~g.next THEN Reject("deleteGallery", hdr, g.status)
     ELSE /\ gallery' = DeleteRow(gallery, id)
          /\ Respond("deleteGallery", hdr, 200, "success")
          /\ UNCHANGED <<users, products, productSeq, orders, reviews,
                         gallerySeq, settings, starts, now, held, client>>

UpdateHero(hdr, file) ==
  LET g == AdminGate(hdr, now)
  IN IF ~g.next THEN Reject("updateHero", hdr, g.status)
     ELSE IF ~file
     THEN /\ Respond("updateHero", hdr, 400, "No image uploaded")
          /\ UNCHANGED <<stores, starts, now, held, client>>
     ELSE /\ settings' = ("hero_image" :> "/uploads/file") @@ settings
          /\ Respond("updateHero", hdr, 200, "success")
          /\ UNCHANGED <<users, products, productSeq, orders, reviews,
                         gallery, gallerySeq, starts, now, held, client>>


(***************************************************************************)
(* A start of the server on the database file as it is: the module-level   *)
(* script runs again, then the server listens and logs that it does.       *)
(***************************************************************************)
Db ==
  [users |-> users, products |-> products, productSeq |-> productSeq,
   orders |-> orders, reviews |-> reviews, gallery |-> gallery,
   gallerySeq |-> gallerySeq, settings |-> settings]

Start ==
  LET db == Startup(Db)
  IN /\ starts < MaxStarts
     /\ starts' = starts + 1
     /\ users' = db.users
     /\ products' = db.products
     /\ productSeq' = db.productSeq
     /\ orders' = db.orders
     /\ reviews' = db.reviews
     /\ gallery' = db.gallery
     /\ gallerySeq' = db.gallerySeq
     /\ settings' = db.settings
     /\ Respond("start", NoHeader, 0, "Server running")
     /\ UNCHANGED <<now, held, client>>

(***************************************************************************)
(* The clock: it moves forward to a later one of the instants observed.    *)
(***************************************************************************)
\* The instants: the start, a second later, and a token lifetime after the
\* start.
Instants == {0, 1, TokenLifetime}

Tick(t) ==
  /\ res = Idle
  /\ t > now
  /\ now' = t
  /\ UNCHANGED <<stores, starts, held, res, client>>

(***************************************************************************)
(* The client's session handlers.  Each awaits the login route's response  *)
(* and then sets the React state and the localStorage entries.             *)
(***************************************************************************)
NoSession == [niora_token |-> NoCred, niora_user |-> NullUser]

\* handleAuth in login mode: authCreds is the body.
handleAuth(authCreds) ==
  LET r == LoginResponse(users, authCreds, now)
  IN /\ Respond("login", NoHeader, r.status, r.body)
     /\ IF r.status = 200
        THEN /\ localStorage' = [niora_token |-> r.token, niora_user |-> r.user]
             /\ token' = r.token
             /\ user' = r.user
             /\ isAdmin' = IF r.user.role = "admin" THEN TRUE ELSE isAdmin
        ELSE UNCHANGED <<token, user, isAdmin, localStorage>>
     /\ UNCHANGED <<stores, starts, now, held, shop, panel>>

\* handleAdminLogin: the id NIORA stands for the admin's email.
handleAdminLogin(adminCreds) ==
  LET email == IF adminCreds.id = Str("NIORA") THEN Str(AdminEmail)
               ELSE adminCreds.id
      r == LoginResponse(users, [email |-> email, password |-> adminCreds.pass],
                         now)
  IN /\ Respond("login", NoHeader, r.status, r.body)
     /\ IF r.status = 200
        THEN /\ localStorage' = [niora_token |-> r.token, niora_user |-> r.user]
             /\ token' = r.token
             /\ user' = r.user
             /\ isAdmin' = TRUE
        ELSE UNCHANGED <<token, user, isAdmin, localStorage>>
     /\ UNCHANGED <<stores, starts, now, held, shop, panel>>

\* The two buttons that call handleLogout, in the navigation bar and in the
\* admin dashboard, are rendered when isAdmin is set.
LogoutShown == isAdmin

handleLogout ==
  /\ res = Idle
  /\ LogoutShown
  /\ localStorage' = NoSession
  /\ token' = NoCred
  /\ user' = NullUser
  /\ isAdmin' = FALSE
  /\ UNCHANGED <<stores, starts, now, held, res, shop, panel>>

(***************************************************************************)
(* The shop: the product list, the cart and the checkout.  A cart entry is *)
(* a copy of the product as the list held it when it was added, with a     *)
(* quantity.                                                               *)
(***************************************************************************)
\* fetchProducts: GET /api/products and setProducts.  The effect on [token]
\* calls it, on mount and at every login and logout, and so do the admin's
\* product handlers.
fetchProducts ==
  /\ Respond("listProducts", NoHeader, 200, "products")
  /\ shopProducts' = products
  /\ UNCHANGED <<stores, starts, now, held, token, user, isAdmin,
                 localStorage, cart, panel>>

\* Mutant of addToCart: the product is appended whether or not the cart
\* holds it.
addToCartAppend(product) ==
  /\ cart' = Append(cart, Item(product.id, product.name, product.price, 1))
  /\ UNCHANGED <<stores, starts, now, held, res, token, user, isAdmin,
                 localStorage, shopProducts, panel>>

addToCart(product) ==
  /\ \A i \in 1..Len(cart) :
       cart[i].id = product.id => cart[i].quantity < MaxQuantity
  /\ cart' = IF \E i \in 1..Len(cart) : cart[i].id = product.id
             THEN [i \in 1..Len(cart) |->
                     IF cart[i].id = product.id
                     THEN [cart[i] EXCEPT !.quantity = @ + 1]
                     ELSE cart[i]]
             ELSE Append(cart, Item(product.id, product.name, product.price, 1))
  /\ UNCHANGED <<stores, starts, now, held, res, token, user, isAdmin,
                 localStorage, shopProducts, panel>>

removeFromCart(id) ==
  /\ cart' = SelectSeq(cart, LAMBDA item : item.id # id)
  /\ UNCHANGED <<stores, starts, now, held, res, token, user, isAdmin,
                 localStorage, shopProducts, panel>>

\* cart.reduce((sum, item) => sum + item.price * item.quantity, 0)
RECURSIVE cartTotal(_)
cartTotal(items) ==
  IF Len(items) = 0 THEN 0
  ELSE cartTotal(SubSeq(items, 1, Len(items) - 1))
         + items[Len(items)].price * items[Len(items)].quantity

\* handleCheckout, from the button the cart shows when it is not empty.
\* address and contact are what the two prompts return: null when cancelled.
\* The handler returns early, changing nothing, without a token or without
\* an address or a contact.
handleCheckout(address, contact) ==
  /\ cart # <<>>
  /\ token # NoCred
  /\ Truthy(address) /\ Truthy(contact)
  /\ CheckoutRoute(Bearer(token),
                   [items |-> Arr(cart), total |-> Num(cartTotal(cart)),
                    address |-> address, contact |-> contact,
                    user_id |-> IF user = NullUser THEN Undef
                                ELSE Num(user.id),
                    status |-> Undef])
  /\ cart' = IF res'.status = 200 THEN <<>> ELSE cart
  /\ UNCHANGED <<token, user, isAdmin, localStorage, shopProducts, panel>>

(***************************************************************************)
(* The admin dashboard's calculations (filteredOrders, dashboardStats).    *)
(* created_at is the ledger's UTC timestamp, in seconds since 1970; the    *)
(* browser reads its text as a local date, so the month shown is the month *)
(* of the UTC calendar date.  The browser's default locale is English, as  *)
(* the values of the month selector assume.                                *)
(***************************************************************************)
MonthNames ==
  <<"Jan", "Feb", "Mar", "Apr", "May", "Jun", "Jul", "Aug", "Sep", "Oct",
    "Nov", "Dec">>

\* The calendar month (1..12) of an instant.
MonthOfYear(t) ==
  LET z == (t \div 86400) + 719468
      doe == z % 146097
      yoe == (doe - (doe \div 1460) + (doe \div 36524) - (doe \div 146096))
               \div 365
      doy == doe - (365 * yoe + (yoe \div 4) - (yoe \div 100))
      mp == (5 * doy + 2) \div 153
  IN IF mp < 10 THEN mp + 3 ELSE mp - 9

\* new Date(created_at).toLocaleString('default', { month: 'short' })
MonthShort(t) == MonthNames[MonthOfYear(t)]

\* The month selector's values.
MonthOptions == {"All"} \cup {MonthNames[i] : i \in 1..12}

FilteredOrders(rows, month) ==
  IF month = "All" THEN rows
  ELSE SelectSeq(rows, LAMBDA order : MonthShort(order.created_at) = month)

\* String.prototype.toLowerCase on the status texts of the model.
ToLowerCase(s) ==
  CASE s \in {"delivered", "Delivered", "DELIVERED"} -> "delivered"
    [] s \in {"pending", "Pending", "PENDING"} -> "pending"
    [] s \in {"shipped", "Shipped"} -> "shipped"
    [] OTHER -> s

\* The numbers the browser computes with are IEEE 754 doubles.  A whole
\* number, which a double holds exactly, is written by its value n; a
\* fraction is written in full, by the exponent e of its leading bit and its
\* 53 significand bits m, leading bit first.
Whole(n) == [whole |-> TRUE, n |-> n, e |-> 0, m |-> <<>>]

HexBits(d) == <<(d \div 8) % 2, (d \div 4) % 2, (d \div 2) % 2, d % 2>>

RECURSIVE HexToBits(_, _)
HexToBits(digits, k) ==
  IF k > Len(digits) THEN <<>>
  ELSE HexBits(digits[k]) \o HexToBits(digits, k + 1)

\* The double 1.h1 h2 ... h13 (hexadecimal) * 2^e.
Double(e, digits) ==
  [whole |-> FALSE, n |-> 0, e |-> e, m |-> <<1>> \o HexToBits(digits, 1)]

\* The carry into bit i when two bit strings of one length are added.
RECURSIVE CarryInto(_, _, _)
CarryInto(a, b, i) ==
  IF i = Len(a) THEN 0
  ELSE (a[i + 1] + b[i + 1] + CarryInto(a, b, i + 1)) \div 2

\* The sum of two bit strings of one length, a bit longer when it carries.
AddBits(a, b) ==
  LET low == [i \in 1..Len(a) |-> (a[i] + b[i] + CarryInto(a, b, i)) % 2]
  IN IF (a[1] + b[1] + CarryInto(a, b, 1)) \div 2 = 1 THEN <<1>> \o low
     ELSE low

Zeros(n) == [i \in 1..n |-> 0]

\* A bit string that starts with 1, the exponent of its leading bit being
\* e, rounded to 53 bits, to nearest and on a tie to even.
RoundDouble(e, bits) ==
  IF Len(bits) <= 53
  THEN [whole |-> FALSE, n |-> 0, e |-> e, m |-> bits \o Zeros(53 - Len(bits))]
  ELSE LET kept == SubSeq(bits, 1, 53)
           sticky == \E i \in 55..Len(bits) : bits[i] = 1
           up == bits[54] = 1 /\ (sticky \/ kept[53] = 1)
           next == AddBits(kept, Zeros(52) \o <<1>>)
       IN IF ~up THEN [whole |-> FALSE, n |-> 0, e |-> e, m |-> kept]
          ELSE IF Len(next) = 53
          THEN [whole |-> FALSE, n |-> 0, e |-> e, m |-> next]
          ELSE [whole |-> FALSE, n |-> 0, e |-> e + 1,
                m |-> SubSeq(next, 1, 53)]

\* x + y for two fractions above zero.
AddDouble(x, y) ==
  LET hi == IF x.e >= y.e THEN x ELSE y
      lo == IF x.e >= y.e THEN y ELSE x
      d == hi.e - lo.e
      sum == AddBits(hi.m \o Zeros(d), Zeros(d) \o lo.m)
  IN RoundDouble(IF Len(sum) > 53 + d THEN hi.e + 1 ELSE hi.e, sum)

\* x + y for the numbers of the model: two whole numbers (far below 2^53,
\* so the sum is exact), 0 and a fraction, or two fractions.
Plus(x, y) ==
  IF x.whole /\ y.whole THEN Whole(x.n + y.n)
  ELSE IF x = Whole(0) THEN y
  ELSE IF y = Whole(0) THEN x
  ELSE AddDouble(x, y)

\* await ordersRes.json(): the rows of the response as the browser holds
\* them, their totals numbers of the browser.
Received(rows) ==
  [i \in 1..Len(rows) |-> [rows[i] EXCEPT !.total = Whole(@)]]

\* A tally of productCount: a number or NaN.
Qty(n) == [nan |-> FALSE, n |-> n]
NaN == [nan |-> TRUE, n |-> 0]

\* a > b on tallies: false when either is NaN.
Greater(a, b) == ~a.nan /\ ~b.nan /\ a.n > b.n

\* productCount is an object: its keys in insertion order, each with its
\* tally.  (No name of the model is an array index, which would sort first.)
KeyIndex(pc, name) ==
  IF \E k \in 1..Len(pc) : pc[k].name = name
  THEN CHOOSE k \in 1..Len(pc) : pc[k].name = name
  ELSE 0

\* productCount[item.name] = (productCount[item.name] || 0) + item.quantity
\* for an item that is an object: a missing name is the key "undefined", a
\* missing quantity makes the sum NaN.
CountItem(pc, item) ==
  LET name == IF "name" \in DOMAIN item THEN item["name"] ELSE "undefined"
      k == KeyIndex(pc, name)
      old == IF k = 0 \/ pc[k].count.nan THEN 0 ELSE pc[k].count.n
      sum == IF "quantity" \in DOMAIN item THEN Qty(old + item["quantity"])
             ELSE NaN
  IN IF k = 0 THEN Append(pc, [name |-> name, count |-> sum])
     ELSE [pc EXCEPT ![k].count = sum]

\* items.forEach(...): item.name throws on a null entry, which ends the loop
\* with the entries before it already counted.
RECURSIVE CountItems(_, _, _)
CountItems(pc, items, i) ==
  IF i > Len(items) \/ items[i] = Null THEN pc
  ELSE CountItems(CountItem(pc, items[i]), items, i + 1)

\* The try block of one order: JSON.parse throws on text that is not JSON
\* and forEach is not a function of a value that is not a list; the catch
\* swallows both.
CountOrder(pc, order) ==
  LET r == JsonParse(order.items)
  IN IF r.ok /\ r.val.t = "arr" THEN CountItems(pc, r.val.v, 1) ELSE pc

\* The accumulators before the loop.
StartStats ==
  [totalRevenue |-> Whole(0), delivered |-> 0, pending |-> 0,
   monthlySales |-> [m \in {"Jan", "Feb", "Mar"} |-> Whole(0)],
   productCount |-> <<>>]

\* Mutant of Accumulate: the status is compared as stored, without
\* toLowerCase.
AccumulateExact(acc, order) ==
  LET monthStr == MonthShort(order.created_at)
  IN [totalRevenue |-> Plus(acc.totalRevenue, order.total),
      delivered |-> acc.delivered
                      + (IF order.status = "delivered" THEN 1 ELSE 0),
      pending |-> acc.pending
                    + (IF order.status = "delivered" THEN 0 ELSE 1),
      monthlySales |->
        (monthStr :> (IF monthStr \in DOMAIN acc.monthlySales
                      THEN Plus(acc.monthlySales[monthStr], order.total)
                      ELSE order.total)) @@ acc.monthlySales,
      productCount |-> CountOrder(acc.productCount, order)]

\* The body of filteredOrders.forEach.
Accumulate(acc, order) ==
  LET monthStr == MonthShort(order.created_at)
      isDelivered == ToLowerCase(order.status) = "delivered"
  IN [totalRevenue |-> Plus(acc.totalRevenue, order.total),
      delivered |-> acc.delivered + (IF isDelivered THEN 1 ELSE 0),
      pending |-> acc.pending + (IF isDelivered THEN 0 ELSE 1),
      monthlySales |->
        (monthStr :> (IF monthStr \in DOMAIN acc.monthlySales
                      THEN Plus(acc.monthlySales[monthStr], order.total)
                      ELSE order.total)) @@ acc.monthlySales,
      productCount |-> CountOrder(acc.productCount, order)]

RECURSIVE AccumulateAll(_, _, _)
AccumulateAll(acc, rows, i) ==
  IF i > Len(rows) THEN acc
  ELSE AccumulateAll(Accumulate(acc, rows[i]), rows, i + 1)

\* Object.keys(productCount).reduce((a, b) =>
\*   productCount[a] > productCount[b] ? a : b), from key i on with a kept.
RECURSIVE BestSeller(_, _, _)
BestSeller(pc, i, a) ==
  IF i > Len(pc) THEN pc[a].name
  ELSE BestSeller(pc, i + 1, IF Greater(pc[a].count, pc[i].count) THEN a ELSE i)

\* ["Jan", "Feb", "Mar"].map(month => ({ month, sales: ... || 0 }))
SalesChartData(monthlySales) ==
  [i \in 1..3 |-> [month |-> MonthNames[i],
                   sales |-> monthlySales[MonthNames[i]]]]

\* Mutant of DashboardStats: the best seller is read without the test for
\* an empty productCount.
DashboardStatsNoSentinel(filtered) ==
  LET acc == AccumulateAll(StartStats, filtered, 1)
  IN [totalOrders |-> Len(filtered),
      totalRevenue |-> acc.totalRevenue,
      delivered |-> acc.delivered,
      pending |-> acc.pending,
      bestSeller |-> IF Len(acc.productCount) > 0
                     THEN BestSeller(acc.productCount, 2, 1)
                     ELSE "undefined",
      salesChartData |-> SalesChartData(acc.monthlySales),
      statusChartData |-> <<[name |-> "Delivered", value |-> acc.delivered],
                            [name |-> "Pending", value |-> acc.pending]>>]

\* dashboardStats as useMemo computes it from filteredOrders.
DashboardStats(filtered) ==
  LET acc == AccumulateAll(StartStats, filtered, 1)
  IN [totalOrders |-> Len(filtered),
      totalRevenue |-> acc.totalRevenue,
      delivered |-> acc.delivered,
      pending |-> acc.pending,
      bestSeller |-> IF Len(acc.productCount) > 0
                     THEN BestSeller(acc.productCount, 2, 1)
                     ELSE "Loading...",
      salesChartData |-> SalesChartData(acc.monthlySales),
      statusChartData |-> <<[name |-> "Delivered", value |-> acc.delivered],
                            [name |-> "Pending", value |-> acc.pending]>>]

(***************************************************************************)
(* The admin panel: the effect on [token], fetchAdminData and the month    *)
(* selector.                                                               *)
(***************************************************************************)
\* The effect runs after a render in which token differs from the token of
\* its last run.  With a stored user and a token it sets user, and for an
\* admin sets isAdmin and calls fetchAdminData, which keeps that token.
useEffect ==
  LET storedUser == localStorage.niora_user
  IN /\ token # effectToken
     /\ effectToken' = token
     /\ IF storedUser # NullUser /\ token # NoCred
        THEN /\ user' = storedUser
             /\ IF storedUser.role = "admin"
                THEN /\ isAdmin' = TRUE
                     /\ fetching' = fetching
                                      \cup {[step |-> "stats", tok |-> token]}
                ELSE UNCHANGED <<isAdmin, fetching>>
        ELSE UNCHANGED <<user, isAdmin, fetching>>
     /\ UNCHANGED <<stores, starts, now, held, res, token, localStorage, shop,
                    adminOrders, selectedMonth, dashboardStats>>

\* fetchAdminData, first await: GET /api/admin/stats.
fetchStats(f) ==
  /\ f \in fetching
  /\ f.step = "stats"
  /\ AdminStatsRoute(Bearer(f.tok))
  /\ fetching' = (fetching \ {f}) \cup {[f EXCEPT !.step = "orders"]}
  /\ UNCHANGED <<stores, starts, now, held, token, user, isAdmin,
                 localStorage, shop, adminOrders, selectedMonth,
                 dashboardStats, effectToken>>

\* fetchAdminData, second await: GET /api/admin/orders, and setAdminOrders
\* when the response is ok; dashboardStats is computed again from the list.
fetchOrders(f) ==
  /\ f \in fetching
  /\ f.step = "orders"
  /\ \E list \in SelectOrders(orders) : ListOrdersRoute(Bearer(f.tok), list)
  /\ adminOrders' = IF res'.status = 200 THEN Received(res'.rows)
                     ELSE adminOrders
  /\ dashboardStats' = DashboardStats(FilteredOrders(adminOrders', selectedMonth))
  /\ fetching' = fetching \ {f}
  /\ UNCHANGED <<stores, starts, now, held, token, user, isAdmin,
                 localStorage, shop, selectedMonth, effectToken>>

\* The month selector's onChange; filteredOrders and dashboardStats are
\* computed again from adminOrders.
setSelectedMonth(month) ==
  /\ selectedMonth' = month
  /\ dashboardStats' = DashboardStats(FilteredOrders(adminOrders, month))
  /\ UNCHANGED <<stores, starts, now, held, res, token, user, isAdmin,
                 localStorage, shop, adminOrders, effectToken, fetching>>

(***************************************************************************)
(* The initial state: a fresh database after the server's first start, the *)
(* clock at 0, a browser with no session.                                  *)
(***************************************************************************)
Booted == Startup(EmptyDb)

Init ==
  /\ users = Booted.users
  /\ products = Booted.products
  /\ productSeq = Booted.productSeq
  /\ orders = Booted.orders
  /\ reviews = Booted.reviews
  /\ gallery = Booted.gallery
  /\ gallerySeq = Booted.gallerySeq
  /\ settings = Booted.settings
  /\ starts = 1
  /\ now = 0
  /\ held = NoCred
  /\ res = Idle
  /\ token = NoCred
  /\ user = NullUser
  /\ isAdmin = FALSE
  /\ localStorage = NoSession
  /\ shopProducts = <<>>
  /\ cart = <<>>
  /\ adminOrders = <<>>
  /\ selectedMonth = "All"
  /\ dashboardStats = DashboardStats(<<>>)
  /\ effectToken = NoCred
  /\ fetching = {}

(***************************************************************************)
(* Inputs.                                                                 *)
(***************************************************************************)
CustomerEmail == "asha@example.com"
CustomerPassword == "soap123"
UnknownEmail == "nobody@example.com"

Emails == {Str(AdminEmail), Str(CustomerEmail), Str(UnknownEmail)}
Passwords == {Str(AdminPassword), Str(CustomerPassword), Undef}

\* The bodies POST /api/auth/signup is sent; a body may carry a role.
SignupBodies ==
  [name : {Str("Asha")}, email : {Str(CustomerEmail), Str(AdminEmail)},
   password : {Str(CustomerPassword), Undef}, role : {Undef, Str("admin")}]

LoginBodies == [email : Emails, password : Passwords]

\* A token an outsider signs with a secret of their own, claiming admin.
Forged(clock) ==
  Jwt(1, "admin", "NIORA Admin", clock, clock + TokenLifetime, "not-the-secret")

\* The Authorization headers a request may carry.
Headers ==
  {NoHeader, BearerOnly, Bearer(Garbage), Bearer(Forged(now)), Bearer(held),
   Bearer(token)}

(***************************************************************************)
(* Access control: sessions, the clock, and every privileged route under   *)
(* every header.                                                           *)
(***************************************************************************)
\* The product and the gallery image an admin adds first.
NewId == Len(seedProducts) + 1

Next ==
  \/ \E body \in SignupBodies : Signup(body)
  \/ \E body \in LoginBodies : Login(body)
  \/ \E body \in LoginBodies : handleAuth(body)
  \/ \E body \in LoginBodies :
       handleAdminLogin([id |-> body.email, pass |-> body.password])
  \/ handleLogout
  \/ \E t \in Instants : Tick(t)
  \/ Finish
  \/ \E hdr \in Headers : CreateProduct(hdr, "NIORA NEEM SOAP", 99)
  \/ \E hdr \in Headers : DeleteProduct(hdr, NewId)
  \/ \E hdr \in Headers : UpdateProduct(hdr, NewId, "NIORA NEEM SOAP", 109)
  \/ \E hdr \in Headers : ListOrders(hdr)
  \/ \E hdr \in Headers : AdminStats(hdr)
  \/ \E hdr \in Headers, file \in BOOLEAN : AddGallery(hdr, file)
  \/ \E hdr \in Headers : DeleteGallery(hdr, NewId)
  \/ \E hdr \in Headers, file \in BOOLEAN : UpdateHero(hdr, file)

Spec == Init /\ [][Next]_vars


(***************************************************************************)
(* The order ledger and the catalog: orders are placed by anyone while an  *)
(* admin, once logged in, edits the catalog and reads the ledger.          *)
(***************************************************************************)
RedWine == Item(1, "NIORA RED WINE SOAP", 79, 1)

\* A well-formed submission of one line, as handleCheckout would send it.
GoodOrder ==
  [items |-> Arr(<<RedWine>>), total |-> Num(79),
   address |-> Str("12 MG Road, Hubli"), contact |-> Str("9845000000"),
   user_id |-> Undef, status |-> Undef]

\* A well-formed submission of two lines.
TwoLineOrder ==
  [GoodOrder EXCEPT
     !.items = Arr(<<Item(2, "NIORA SHUDDHA GLOW", 89, 2), RedWine>>),
     !.total = Num(257)]

\* The bodies POST /api/orders is sent: the two above, and GoodOrder with one
\* field changed.
OrderBodies ==
  {GoodOrder, TwoLineOrder}
    \cup {[GoodOrder EXCEPT !.items = x] :
            x \in {Arr(<<>>), Arr(<<Item(1, "NIORA RED WINE SOAP", 79, 0)>>),
                   Str("soap"), Undef}}
    \cup {[GoodOrder EXCEPT !.total = Num(0)],
          [GoodOrder EXCEPT !.address = Str("")],
          [GoodOrder EXCEPT !.address = Undef],
          [GoodOrder EXCEPT !.contact = Str("")],
          [GoodOrder EXCEPT !.user_id = Num(1)],
          [GoodOrder EXCEPT !.status = Str("delivered")]}

AdminLogin == [email |-> Str(AdminEmail), password |-> Str(AdminPassword)]

NextOrders ==
  \/ Login(AdminLogin)
  \/ \E body \in OrderBodies : PlaceOrder(body)
  \/ CreateProduct(Bearer(held), "NIORA NEEM SOAP", 99)
  \/ UpdateProduct(Bearer(held), 1, "NIORA ROSE SOAP", 99)
  \/ DeleteProduct(Bearer(held), 1)
  \/ ListOrders(Bearer(held))
  \/ AdminStats(Bearer(held))
  \/ PostReview("Asha", "Lovely soap", 0)
  \/ Finish

SpecOrders == Init /\ [][NextOrders]_vars

(***************************************************************************)
(* Starts of the server over one database file, from the file's creation:  *)
(* between starts an admin deletes and adds products and deletes gallery   *)
(* images.                                                                 *)
(***************************************************************************)
InitFresh ==
  /\ users = EmptyDb.users
  /\ products = EmptyDb.products
  /\ productSeq = EmptyDb.productSeq
  /\ orders = EmptyDb.orders
  /\ reviews = EmptyDb.reviews
  /\ gallery = EmptyDb.gallery
  /\ gallerySeq = EmptyDb.gallerySeq
  /\ settings = EmptyDb.settings
  /\ starts = 0
  /\ now = 0
  /\ held = NoCred
  /\ res = Idle
  /\ token = NoCred
  /\ user = NullUser
  /\ isAdmin = FALSE
  /\ localStorage = NoSession
  /\ shopProducts = <<>>
  /\ cart = <<>>
  /\ adminOrders = <<>>
  /\ selectedMonth = "All"
  /\ dashboardStats = DashboardStats(<<>>)
  /\ effectToken = NoCred
  /\ fetching = {}

\* The routes answer once the server has started.
NextStarts ==
  \/ Start
  \/ starts > 0 /\ Login(AdminLogin)
  \/ starts > 0 /\ \E id \in 1..Len(seedProducts) + MaxNewProducts :
                      DeleteProduct(Bearer(held), id)
  \/ starts > 0 /\ \E id \in 1..Len(seedGallery) :
                      DeleteGallery(Bearer(held), id)
  \/ starts > 0 /\ CreateProduct(Bearer(held), "NIORA NEEM SOAP", 99)
  \/ Finish

SpecStarts == InitFresh /\ [][NextStarts]_vars

(***************************************************************************)
(* The cart: a visitor adds products of the list and removes cart entries, *)
(* while an admin elsewhere renames and reprices a product and the list is *)
(* fetched again.                                                          *)
(***************************************************************************)
NextCart ==
  \/ fetchProducts
  \/ \E i \in 1..Len(shopProducts) : addToCart(shopProducts[i])
  \/ \E i \in 1..Len(cart) : removeFromCart(cart[i].id)
  \/ Login(AdminLogin)
  \/ UpdateProduct(Bearer(held), 1, "NIORA ROSE SOAP", 99)
  \/ Finish

SpecCart == Init /\ [][NextCart]_vars

(***************************************************************************)
(* The checkout: a customer signs up, logs in, fills the cart with the     *)
(* first product of the list and checks out, while an admin elsewhere      *)
(* renames and reprices that product.                                      *)
(***************************************************************************)
CustomerSignup ==
  [name |-> Str("Asha"), email |-> Str(CustomerEmail),
   password |-> Str(CustomerPassword), role |-> Undef]

CustomerLogin ==
  [email |-> Str(CustomerEmail), password |-> Str(CustomerPassword)]

\* What a prompt returns: the text typed, or null when it is cancelled.
Addresses == {Str("12 MG Road, Hubli"), Null}
Contacts == {Str("9845000000"), Null}

NextCheckout ==
  \/ Signup(CustomerSignup)
  \/ handleAuth(CustomerLogin)
  \/ fetchProducts
  \/ \E i \in 1..Len(shopProducts) :
       shopProducts[i].id = 1 /\ addToCart(shopProducts[i])
  \/ \E i \in 1..Len(cart) : removeFromCart(cart[i].id)
  \/ \E address \in Addresses, contact \in Contacts :
       handleCheckout(address, contact)
  \/ Login(AdminLogin)
  \/ UpdateProduct(Bearer(held), 1, "NIORA ROSE SOAP", 99)
  \/ Finish

SpecCheckout == Init /\ [][NextCheckout]_vars

(***************************************************************************)
(* The admin panel with the ledger: an admin logs in through the admin     *)
(* modal (again at a later time, for a new token), the effect fetches the  *)
(* stats and the orders, customers place orders, the admin changes the     *)
(* month filter, and the clock crosses a month.                            *)
(***************************************************************************)
AdminCreds == [id |-> Str("NIORA"), pass |-> Str(AdminPassword)]

\* The start, a second later, and the first of February.
PanelInstants == {0, 1, 31 * 86400}

\* A good submission, and one whose list ends with null.
PanelBodies == {GoodOrder, [GoodOrder EXCEPT !.items = Arr(<<RedWine, Null>>)]}

PanelMonths == {"All", "Feb"}

NextPanel ==
  \/ handleAdminLogin(AdminCreds)
  \/ useEffect
  \/ \E f \in fetching : fetchStats(f)
  \/ \E f \in fetching : fetchOrders(f)
  \/ \E body \in PanelBodies : PlaceOrder(body)
  \/ \E month \in PanelMonths : setSelectedMonth(month)
  \/ \E id \in 1..MaxOrders : UpdateStatus(Bearer(token), id, "delivered")
  \/ \E t \in PanelInstants : Tick(t)
  \/ Finish

SpecPanel == Init /\ [][NextPanel]_vars

(***************************************************************************)
(* The dashboard's calculations on their own: adminOrders is any list of   *)
(* up to MaxRows orders and the month selector is changed at will.         *)
(***************************************************************************)
\* Snapshot texts: well-formed lists, a text that is not JSON, and a list
\* whose entry has no quantity.
TextA2 == JsonStringify(Arr(<<Item(1, "A", 10, 2)>>)).v
TextB1 == JsonStringify(Arr(<<Item(2, "B", 20, 1)>>)).v
TextB2 == JsonStringify(Arr(<<Item(2, "B", 20, 2)>>)).v
TextCut == <<P("["), P("{")>>
TextNoQuantity == <<P("["), P("{"), S("name"), P(":"), S("C"), P("}"), P("]")>>

LedgerRow(total, status, created_at, items) ==
  [id |-> 0, user_id |-> Null, items |-> items, total |-> total,
   status |-> status, address |-> "12 MG Road, Hubli",
   contact |-> "9845000000", created_at |-> created_at]

\* Three orders of January, and one each of April, February and March.
SampleRows ==
  <<LedgerRow(Whole(79), "pending", 0, TextA2),
    LedgerRow(Whole(89), "Delivered", 86400, TextA2),
    LedgerRow(Whole(200), "pending", 15 * 86400, TextB1),
    LedgerRow(Whole(150), "DELIVERED", 90 * 86400, TextB2),
    LedgerRow(Whole(50), "shipped", 31 * 86400, TextCut),
    LedgerRow(Whole(60), "pending", 59 * 86400, TextNoQuantity)>>

\* The lists of up to MaxRows of the rows given, with ids 1, 2, ... in list
\* order.
ListsOf(rows) ==
  UNION {{[i \in 1..n |-> [rows[pick[i]] EXCEPT !.id = i]] :
            pick \in [1..n -> 1..Len(rows)]} : n \in 0..MaxRows}

OrderLists == ListsOf(SampleRows)

DashboardMonths == {"All", "Jan", "Feb", "Apr"}

InitLists(lists) ==
  /\ users = Booted.users
  /\ products = Booted.products
  /\ productSeq = Booted.productSeq
  /\ orders = Booted.orders
  /\ reviews = Booted.reviews
  /\ gallery = Booted.gallery
  /\ gallerySeq = Booted.gallerySeq
  /\ settings = Booted.settings
  /\ starts = 1
  /\ now = 0
  /\ held = NoCred
  /\ res = Idle
  /\ token = NoCred
  /\ user = NullUser
  /\ isAdmin = FALSE
  /\ localStorage = NoSession
  /\ shopProducts = <<>>
  /\ cart = <<>>
  /\ adminOrders \in lists
  /\ selectedMonth = "All"
  /\ dashboardStats = DashboardStats(FilteredOrders(adminOrders, selectedMonth))
  /\ effectToken = NoCred
  /\ fetching = {}

InitDashboard == InitLists(OrderLists)

NextDashboard == \E month \in DashboardMonths : setSelectedMonth(month)

SpecDashboard == InitDashboard /\ [][NextDashboard]_vars

(***************************************************************************)
(* The same with totals that are not whole rupees: 79.99, 89.99 and 19.99, *)
(* each the double nearest to it.                                          *)
(***************************************************************************)
FractionRows ==
  <<LedgerRow(Double(6, <<3, 15, 15, 5, 12, 2, 8, 15, 5, 12, 2, 8, 15>>),
              "pending", 0, TextA2),
    LedgerRow(Double(6, <<6, 7, 15, 5, 12, 2, 8, 15, 5, 12, 2, 8, 15>>),
              "Delivered", 86400, TextA2),
    LedgerRow(Double(4, <<3, 15, 13, 7, 0, 10, 3, 13, 7, 0, 10, 3, 13>>),
              "pending", 15 * 86400, TextB1)>>

InitFractions == InitLists(ListsOf(FractionRows))

SpecFractions == InitFractions /\ [][NextDashboard]_vars

(***************************************************************************)
(* Access control.                                                         *)
(***************************************************************************)
PrivilegedOps ==
  {"createProduct", "deleteProduct", "updateProduct", "listOrders",
   "adminStats", "addGallery", "deleteGallery", "updateHero"}

\* The header carries no token: it is absent, or nothing follows "Bearer".
CarriesNoToken(hdr) == ~hdr.set \/ hdr.cred.t = "none"

\* The token is one the server signed and its expiry is still ahead.
ValidUnexpired(hdr, clock) ==
  /\ hdr.set
  /\ hdr.cred.t = "jwt"
  /\ hdr.cred.key = JWT_SECRET
  /\ clock < hdr.cred.exp

ValidAdminToken(hdr, clock) ==
  ValidUnexpired(hdr, clock) /\ hdr.cred.role = "admin"

\* C1: a privileged request without a valid, unexpired admin token is turned
\* away with no data in the response and every store left as it was; and the
\* catalog, the gallery and the settings change only in a privileged request
\* that carries such a token.
C1_PrivilegedNeedsAdmin ==
  [][/\ (res = Idle /\ res'.op \in PrivilegedOps
           /\ ~ValidAdminToken(res'.hdr, now))
        => /\ stores' = stores
           /\ res'.status \in {401, 403}
           /\ res'.body \in {"Unauthorized", "Forbidden"}
     /\ <<products, productSeq, gallery, gallerySeq, settings>>'
          # <<products, productSeq, gallery, gallerySeq, settings>>
        => res'.op \in PrivilegedOps /\ ValidAdminToken(res'.hdr, now)]_vars

\* An admin's token, accepted earlier (the catalog has grown), is presented
\* after its expiry and the request is turned away.
C1_Witness ==
  /\ res.op = "deleteProduct"
  /\ res.status = 403
  /\ res.hdr.cred.t = "jwt"
  /\ res.hdr.cred.key = JWT_SECRET
  /\ res.hdr.cred.role = "admin"
  /\ now >= res.hdr.cred.exp
  /\ productSeq > Len(seedProducts)

\* C2: the failure of a privileged request is decided by the token alone:
\* no token, 401 Unauthorized; a token that is invalid or expired, 403
\* Forbidden; a valid token whose role is not admin, 403 Forbidden.
C2_FailureByToken ==
  res.op \in PrivilegedOps =>
    /\ CarriesNoToken(res.hdr)
         => res.status = 401 /\ res.body = "Unauthorized"
    /\ (~CarriesNoToken(res.hdr) /\ ~ValidUnexpired(res.hdr, now))
         => res.status = 403 /\ res.body = "Forbidden"
    /\ (ValidUnexpired(res.hdr, now) /\ res.hdr.cred.role # "admin")
         => res.status = 403 /\ res.body = "Forbidden"

\* A customer's valid token is refused on the order list.
C2_Witness ==
  /\ res.op = "listOrders"
  /\ res.status = 403
  /\ ValidUnexpired(res.hdr, now)
  /\ res.hdr.cred.role = "customer"

\* C3: a failed login answers the same whether the email is unknown or the
\* email is registered and the password is not the account's.
C3_LoginIndistinguishable ==
  \A known, unknown \in Emails, pw \in Passwords :
    LET a == LoginResponse(users, [email |-> known, password |-> pw], now)
        b == LoginResponse(users, [email |-> unknown, password |-> pw], now)
    IN (/\ UserByEmail(users, known.v) # {}
        /\ UserByEmail(users, unknown.v) = {}
        /\ a.status # 200)
       => a.status = b.status /\ a.body = b.body

\* The tokens in anyone's hands.
TokensOut == {t \in {held, token, localStorage.niora_token} : t.t = "jwt"}

\* C4: a token's expiry is fixed when it is signed, a token lifetime after
\* the login; an admin's token passes the gate of the privileged routes
\* exactly while the clock is before that expiry, whatever logouts, logins
\* and signups happened since; and no step but the clock's changes whether
\* a token in someone's hands passes.
C4_ValidUntilExpiry ==
  [][/\ \A t \in TokensOut :
          /\ t.exp = t.iat + TokenLifetime
          /\ t.role = "admin" =>
               (AdminGate(Bearer(t), now).next <=> now < t.iat + TokenLifetime)
          /\ now' = now =>
               (AdminGate(Bearer(t), now).next)' = AdminGate(Bearer(t), now).next
     /\ (res = Idle /\ res'.op \in PrivilegedOps /\ res'.hdr.cred \in TokensOut
           /\ res'.hdr.cred.role = "admin")
        => (res'.status \in {401, 403} <=> now >= res'.hdr.cred.exp)]_vars

\* The browser has logged in again since the held token was signed, and the
\* held token still opens the order list.
C4_Witness ==
  /\ res.op = "listOrders"
  /\ res.status = 200
  /\ res.hdr = Bearer(held)
  /\ token.t = "jwt"
  /\ token.iat > held.iat
  /\ Len(users) > 1


(***************************************************************************)
(* The order ledger.                                                       *)
(***************************************************************************)
\* What the specification's placeOrder accepts: a non-empty list of lines,
\* each quantity a positive integer, address and contact non-empty strings.
ValidSubmission(body) ==
  /\ body.items.t = "arr"
  /\ Len(body.items.v) > 0
  /\ \A i \in 1..Len(body.items.v) : body.items.v[i].quantity > 0
  /\ body.address.t = "str" /\ body.address.v # ""
  /\ body.contact.t = "str" /\ body.contact.v # ""

RECURSIVE SumLines(_)
SumLines(lines) ==
  IF Len(lines) = 0 THEN 0
  ELSE Head(lines).price * Head(lines).quantity + SumLines(Tail(lines))

\* The request just handled is an order that went through.
OrderPlaced == res.op = "placeOrder" /\ res.status = 200

NewestOrder == orders[Len(orders)]

\* C5: a submission that is not valid is rejected with a validation error
\* (400) and the ledger stays as it was.
C5_RejectsInvalid ==
  [][(res = Idle /\ res'.op = "placeOrder" /\ ~ValidSubmission(res'.input))
       => (res'.status = 400 /\ orders' = orders)]_vars

\* C6: every order in the ledger has a list snapshot whose line amounts add
\* up to the order's total.
C6_TotalMatchesLines ==
  \A i \in 1..Len(orders) :
    LET r == JsonParse(orders[i].items)
    IN r.ok /\ r.val.t = "arr" /\ orders[i].total = SumLines(r.val.v)

\* C7: an order that goes through adds one row at the end of the ledger and
\* leaves the rows before it and every other store as they were.
C7_OneRowOnly ==
  [][(res = Idle /\ res'.op = "placeOrder" /\ res'.status = 200)
       => /\ Len(orders') = Len(orders) + 1
          /\ SubSeq(orders', 1, Len(orders)) = orders
          /\ UNCHANGED <<users, products, productSeq, reviews, gallery,
                         gallerySeq, settings>>]_vars

\* A second order goes through when the catalog and the reviews have changed
\* since the start.
C7_Witness ==
  /\ OrderPlaced
  /\ Len(orders) = 2
  /\ Len(reviews) = 1
  /\ products # Booted.products

\* C8: the row of an order that just went through has status pending.
C8_StartsPending == OrderPlaced => NewestOrder.status = "pending"

\* The body asked for status delivered.
C8_Witness ==
  /\ OrderPlaced
  /\ res.input.status = Str("delivered")
  /\ NewestOrder.status = "pending"

\* C9: the snapshot of an order that just went through parses, and parses to
\* the items the request submitted.
C9_SnapshotRoundTrip ==
  OrderPlaced =>
    LET r == JsonParse(NewestOrder.items)
    IN r.ok /\ r.val = res.input.items

\* A valid submission of two lines went through.
C9_Witness ==
  /\ OrderPlaced
  /\ ValidSubmission(res.input)
  /\ Len(res.input.items.v) = 2
  /\ JsonParse(NewestOrder.items).val.v[2] = RedWine

\* C10: a catalog request (create, update, delete) leaves every order of the
\* ledger as it was.
C10_LedgerIgnoresCatalog ==
  [][(res = Idle
        /\ res'.op \in {"createProduct", "updateProduct", "deleteProduct"})
       => orders' = orders]_vars

\* The product an order froze at 79 has been renamed and repriced to 99.
C10_Witness ==
  /\ res.op = "updateProduct"
  /\ res.status = 200
  /\ Len(orders) > 0
  /\ JsonParse(orders[1].items).val = Arr(<<RedWine>>)
  /\ orders[1].total = 79
  /\ \E i \in 1..Len(products) :
       products[i].id = 1 /\ products[i].price = 99

(***************************************************************************)
(* Listing the ledger and changing an order's status.                      *)
(***************************************************************************)
\* The list last sent by GET /api/admin/orders.
OrdersListed == res.op = "listOrders" /\ res.status = 200

\* C11: the list GET /api/admin/orders sends holds every order of the ledger
\* exactly once, and of any two orders the one placed later (the higher id)
\* comes earlier in the list, also when both carry the same created_at.
C11_NewestFirst ==
  OrdersListed =>
    /\ Len(res.rows) = Len(orders)
    /\ \A k \in 1..Len(orders) :
         Cardinality({i \in 1..Len(res.rows) : res.rows[i] = orders[k]}) = 1
    /\ \A i, j \in 1..Len(res.rows) :
         i < j => res.rows[i].id > res.rows[j].id

\* C12: a request to set an order's status that carries a valid admin token
\* sets the status of the order with that id and reports success; when no
\* order has the id it reports NotFound (404) and the ledger stays as it was.
C12_UpdateStatus ==
  [][(res = Idle /\ res'.op = "updateStatus"
        /\ ValidAdminToken(res'.hdr, now))
       => LET id == res'.input.id
          IN IF id \in 1..Len(orders)
             THEN /\ res'.status = 200
                  /\ orders' = [orders EXCEPT ![id].status = res'.input.status]
             ELSE /\ res'.status = 404
                  /\ orders' = orders]_vars

(***************************************************************************)
(* The dashboard's figures.                                                *)
(***************************************************************************)
\* The positions of the orders the month filter keeps.
Kept(rows, month) ==
  {i \in 1..Len(rows) : month = "All" \/ MonthShort(rows[i].created_at) = month}

\* The sum of the totals, whole numbers, of the orders at the positions idx.
RECURSIVE SumTotals(_, _)
SumTotals(rows, idx) ==
  IF idx = {} THEN 0
  ELSE LET i == CHOOSE k \in idx : TRUE
       IN rows[i].total.n + SumTotals(rows, idx \ {i})

\* The spellings of "delivered" among the status texts of the model.
DeliveredSpellings == {"delivered", "Delivered", "DELIVERED"}

C14_MonthBuckets ==
  LET kept == Kept(adminOrders, selectedMonth)
      MonthAt(i) == MonthShort(adminOrders[i].created_at)
      months == {"Jan", "Feb", "Mar"} \cup {MonthAt(i) : i \in kept}
      chart == dashboardStats.salesChartData
  IN \A m \in months :
       \E k \in 1..Len(chart) :
         /\ chart[k].month = m
         /\ chart[k].sales
              = Whole(SumTotals(adminOrders, {i \in kept : MonthAt(i) = m}))

\* The entries of an order's snapshot when it reads as a list, else none.
Entries(order) ==
  LET r == JsonParse(order.items)
  IN IF r.ok /\ r.val.t = "arr" THEN r.val.v ELSE <<>>

\* The product names met while scanning the kept orders' snapshots, in the
\* order of the scan.
RECURSIVE NamesScanned(_, _, _)
NamesScanned(rows, month, i) ==
  IF i > Len(rows) THEN <<>>
  ELSE LET es == Entries(rows[i])
           named == SelectSeq(es, LAMBDA e : "name" \in DOMAIN e)
       IN (IF i \in Kept(rows, month)
           THEN [k \in 1..Len(named) |-> named[k].name]
           ELSE <<>>)
          \o NamesScanned(rows, month, i + 1)

\* The quantity an entry states for a product name.
QuantityOf(e, name) ==
  IF "name" \in DOMAIN e /\ "quantity" \in DOMAIN e
  THEN (IF e.name = name THEN e.quantity ELSE 0)
  ELSE 0

RECURSIVE QuantityIn(_, _, _)
QuantityIn(es, name, k) ==
  IF k > Len(es) THEN 0
  ELSE QuantityOf(es[k], name) + QuantityIn(es, name, k + 1)

\* The quantity of a product name summed over the kept orders' snapshots.
RECURSIVE QuantitySold(_, _, _, _)
QuantitySold(rows, month, name, i) ==
  IF i > Len(rows) THEN 0
  ELSE (IF i \in Kept(rows, month)
        THEN QuantityIn(Entries(rows[i]), name, 1)
        ELSE 0)
       + QuantitySold(rows, month, name, i + 1)

\* C15: when a kept order has a snapshot that reads as a list with entries,
\* the best seller is a product name whose quantity, summed over the kept
\* orders' snapshots, is at least that of every other product name.
C15_BestSellerIsArgmax ==
  LET scanned == NamesScanned(adminOrders, selectedMonth, 1)
      names == {scanned[k] : k \in 1..Len(scanned)}
      Sold(n) == QuantitySold(adminOrders, selectedMonth, n, 1)
  IN (\E i \in Kept(adminOrders, selectedMonth) :
        Len(Entries(adminOrders[i])) > 0)
       => /\ dashboardStats.bestSeller \in names
          /\ \A n \in names : Sold(dashboardStats.bestSeller) >= Sold(n)

\* C16: when several product names share the greatest quantity, the best
\* seller is the one of them met first in the scan.
C16_TieKeepsFirst ==
  LET scanned == NamesScanned(adminOrders, selectedMonth, 1)
      names == {scanned[k] : k \in 1..Len(scanned)}
      Sold(n) == QuantitySold(adminOrders, selectedMonth, n, 1)
      top == {n \in names : \A m \in names : Sold(n) >= Sold(m)}
      First(n) == CHOOSE k \in 1..Len(scanned) :
                    scanned[k] = n /\ \A j \in 1..(k - 1) : scanned[j] # n
  IN Cardinality(top) > 1
       => /\ dashboardStats.bestSeller \in top
          /\ \A n \in top : First(dashboardStats.bestSeller) <= First(n)

\* The snapshot reads as a list whose every entry has a name and a
\* quantity.
WellFormed(order) ==
  LET r == JsonParse(order.items)
  IN /\ r.ok
     /\ r.val.t = "arr"
     /\ \A k \in 1..Len(r.val.v) :
          {"name", "quantity"} \subseteq DOMAIN r.val.v[k]

\* C17: an order whose snapshot is malformed aborts neither computation: the
\* stats route answers an admin with 200, the dashboard's tallies are those
\* of the well-formed orders alone, and the malformed order still counts in
\* the number of orders, the revenue and the delivered and pending counts.
C17_FailSoft ==
  LET filtered == FilteredOrders(adminOrders, selectedMonth)
      kept == Kept(adminOrders, selectedMonth)
  IN /\ (res.op = "adminStats" /\ ValidAdminToken(res.hdr, now))
          => res.status = 200
     /\ AccumulateAll(StartStats, filtered, 1).productCount
          = AccumulateAll(StartStats, SelectSeq(filtered, WellFormed), 1)
              .productCount
     /\ dashboardStats.totalOrders = Cardinality(kept)
     /\ dashboardStats.totalRevenue = Whole(SumTotals(adminOrders, kept))
     /\ dashboardStats.delivered + dashboardStats.pending = Cardinality(kept)

\* C18: with no order to count, every figure is 0 and the best seller is the
\* sentinel.
C18_EmptySet ==
  Kept(adminOrders, selectedMonth) = {} =>
    /\ dashboardStats.totalOrders = 0
    /\ dashboardStats.totalRevenue = Whole(0)
    /\ dashboardStats.delivered = 0
    /\ dashboardStats.pending = 0
    /\ dashboardStats.bestSeller = "Loading..."

\* The figures have been computed again, for February, from an empty list.
C18_Witness ==
  /\ adminOrders = <<>>
  /\ selectedMonth = "Feb"
  /\ dashboardStats.totalOrders = 0
  /\ dashboardStats.bestSeller = "Loading..."

\* C19: the figures do not depend on the order of the rows: computed from
\* any rearrangement of the list, totalOrders, totalRevenue, delivered,
\* pending and the month revenue buckets are the same.
C19_RowOrderInvariant ==
  \A list \in Arrangements(adminOrders) :
    LET other == DashboardStats(FilteredOrders(list, selectedMonth))
    IN /\ other.totalOrders = dashboardStats.totalOrders
       /\ other.totalRevenue = dashboardStats.totalRevenue
       /\ other.delivered = dashboardStats.delivered
       /\ other.pending = dashboardStats.pending
       /\ other.salesChartData = dashboardStats.salesChartData

\* C20: the dashboard's figures are never those of an earlier read: whenever
\* the admin's dashboard, with no fetch under way, computes its figures
\* again, they count every order of the ledger as it then is.
C20_ReadsCurrentLedger ==
  [][(/\ isAdmin'
      /\ fetching' = {}
      /\ effectToken' = token'
      /\ (selectedMonth' # selectedMonth \/ adminOrders' # adminOrders))
       => LET kept == Kept(orders', selectedMonth')
          IN /\ dashboardStats'.totalOrders = Cardinality(kept)
             /\ dashboardStats'.totalRevenue
                  = Whole(SumTotals(Received(orders'), kept))]_vars

(***************************************************************************)
(* Concurrent orders, missing products and starts of the server.           *)
(***************************************************************************)
\* The columns of a ledger row that come from the request.
RequestData(row) ==
  [user_id |-> row.user_id, items |-> row.items, total |-> row.total,
   address |-> row.address, contact |-> row.contact]

\* C21: however placeOrder requests interleave, and also when the same
\* payload is sent again, every request that goes through adds exactly one
\* row, with an id no other row has and with that request's data; no other
\* step adds, removes or changes a row, so N such requests leave N rows.
C21_OneRowPerRequest ==
  [][IF res = Idle /\ res'.op = "placeOrder" /\ res'.status = 200
     THEN LET p == OrderParams(res'.input)
          IN /\ Len(orders') = Len(orders) + 1
             /\ SubSeq(orders', 1, Len(orders)) = orders
             /\ \A i \in 1..Len(orders) : orders[i].id # NewestOrder'.id
             /\ RequestData(NewestOrder')
                  = [user_id |-> p.user_id, items |-> p.items.v,
                     total |-> p.total.v, address |-> p.address.v,
                     contact |-> p.contact.v]
     ELSE orders' = orders]_vars

\* The same payload went through twice, in the same second: two rows that
\* differ in their ids only.
C21_Witness ==
  /\ OrderPlaced
  /\ Len(orders) = 2
  /\ orders[1].id # orders[2].id
  /\ [orders[1] EXCEPT !.id = 0] = [orders[2] EXCEPT !.id = 0]

\* No row of the catalog has the id.
NotInCatalog(id) == \A i \in 1..Len(products) : products[i].id # id

\* C22: an admin's request to update or to delete a product whose id is not
\* in the catalog reports NotFound (404) and leaves the catalog as it was.
C22_MissingProductNotFound ==
  [][\A hdr \in Headers :
       (/\ NotInCatalog(NewId)
        /\ ValidAdminToken(hdr, now)
        /\ \/ DeleteProduct(hdr, NewId)
           \/ UpdateProduct(hdr, NewId, "NIORA NEEM SOAP", 109))
         => (res'.status = 404 /\ products' = products)]_vars

\* C23: seeding runs at most once per database: seed products and seed
\* gallery images are inserted only by a start that finds no seeded marker,
\* which is the first start; every later start finds the marker and leaves
\* the catalog and the gallery as they are, also when both are empty.
C23_SeedsOnce ==
  [][starts' # starts =>
       IF starts = 0
       THEN /\ "seeded" \notin DOMAIN settings
            /\ Len(products') = Len(seedProducts)
            /\ Len(gallery') = Len(seedGallery)
       ELSE /\ "seeded" \in DOMAIN settings
            /\ products' = products
            /\ gallery' = gallery]_vars

\* The server has just started again on a database from which the admin had
\* deleted every product and every gallery image.
C23_Witness ==
  /\ res.op = "start"
  /\ starts > 1
  /\ products = <<>>
  /\ gallery = <<>>

(***************************************************************************)
(* The cart and the checkout.                                              *)
(***************************************************************************)
\* The entries of a cart that hold the product.
EntriesOf(items, id) == {i \in 1..Len(items) : items[i].id = id}

\* C24: the cart holds at most one entry per product id, each with a whole
\* quantity of 1 or more; and adding a product the cart already holds adds
\* exactly 1 to that entry's quantity and leaves the other entries as they
\* were.
C24_CartEntries ==
  [][/\ \A i \in 1..Len(cart') :
          /\ EntriesOf(cart', cart'[i].id) = {i}
          /\ cart'[i].quantity \in Nat \ {0}
     /\ \A k \in 1..Len(shopProducts) :
          (addToCart(shopProducts[k])
             /\ EntriesOf(cart, shopProducts[k].id) # {})
            => /\ Len(cart') = Len(cart)
               /\ \A i \in 1..Len(cart) :
                    cart'[i] = IF cart[i].id = shopProducts[k].id
                               THEN [cart[i] EXCEPT !.quantity = @ + 1]
                               ELSE cart[i]]_vars

\* Two products are in the cart, not in the order of the list, and the one
\* added first was added again after the other.
C24_Witness ==
  /\ Len(cart) = 2
  /\ cart[1].id > cart[2].id
  /\ cart[1].quantity = 2
  /\ cart[2].quantity = 1

\* C25: when a checkout goes through, every line of the order's snapshot
\* has the name and the unit price its product has in the catalog at that
\* moment, also when an admin edited the product after it was added to the
\* cart.
C25_SnapshotOfCatalog ==
  [][\A address \in Addresses, contact \in Contacts :
       (handleCheckout(address, contact) /\ res'.status = 200)
         => LET lines == JsonParse(NewestOrder'.items).val.v
            IN \A i \in 1..Len(lines) :
                 \E k \in 1..Len(products) :
                   /\ products[k].id = lines[i].id
                   /\ products[k].name = lines[i].name
                   /\ products[k].price = lines[i].price]_vars

(***************************************************************************)
(* The client's session and the roles of accounts.                         *)
(***************************************************************************)
\* C26: the client's isAdmin flag is set only while a user is logged in and
\* that user's role is admin; a login through the admin login form with a
\* customer's account does not set it.
C26_AdminFlagMeansAdmin ==
  isAdmin => (user # NullUser /\ user.role = "admin")

\* The account the startup script inserts.
SeededAdmin(row) == row.id = 1 /\ row.email = AdminEmail

\* C27: no request makes an admin: a signup that goes through inserts a
\* customer whatever its body says, the only account with role admin is the
\* one the startup script inserted, and every token the server signed with
\* role admin carries that account's id.
C27_NoNewAdmin ==
  /\ (res.op = "signup" /\ res.status = 200)
       => users[Len(users)].role = "customer"
  /\ \A i \in 1..Len(users) :
       users[i].role = "admin" => SeededAdmin(users[i])
  /\ \A t \in TokensOut :
       (t.key = JWT_SECRET /\ t.role = "admin")
         => \E i \in 1..Len(users) : users[i].id = t.id /\ SeededAdmin(users[i])

\* A signup whose body asked for role admin went through while an admin's
\* token was out: the new account is a customer.
C27_Witness ==
  /\ res.op = "signup"
  /\ res.status = 200
  /\ res.input.role = Str("admin")
  /\ users[Len(users)].email = CustomerEmail
  /\ users[Len(users)].role = "customer"
  /\ \E t \in TokensOut : t.key = JWT_SECRET /\ t.role = "admin"

\* C28: the user_id stored with an order that goes through is null or the
\* id of the user whose valid token the request carried: no caller places an
\* order under another user's id.
C28_OwnerIsCaller ==
  [][(res = Idle /\ res'.op = "placeOrder" /\ res'.status = 200)
       => \/ NewestOrder'.user_id = Null
          \/ /\ ValidUnexpired(res'.hdr, now)
             /\ NewestOrder'.user_id = Num(res'.hdr.cred.id)]_vars

\* C29: no operation changes an order's status: every order of the ledger
\* has status pending, so the dashboard counts no order as delivered and
\* counts as pending every order it shows.
C29_AlwaysPending ==
  /\ \A i \in 1..Len(orders) : orders[i].status = "pending"
  /\ dashboardStats.delivered = 0
  /\ dashboardStats.pending = dashboardStats.totalOrders

\* The dashboard shows two orders, and a request to mark one of them
\* delivered has just been answered.
C29_Witness ==
  /\ res.op = "updateStatus"
  /\ res.input.status = "delivered"
  /\ Len(orders) = 2
  /\ dashboardStats.totalOrders = 2
  /\ dashboardStats.pending = 2

\* C30: whenever a user is logged in, customer or admin, the logout control
\* is there to use; and a logout clears the token, the user, the isAdmin
\* flag and both stored session entries.
C30_LogoutAvailable ==
  [][/\ user' # NullUser => LogoutShown'
     /\ handleLogout => /\ token' = NoCred
                         /\ user' = NullUser
                         /\ ~isAdmin'
                         /\ localStorage' = NoSession]_vars

=============================================================================
